---- MODULE Spec2Model ----
(***************************************************************************)
(* Model of the clinic data layer (ClinicProvider, src/unnamed/part_000):  *)
(* the remote store (eight tables), the in-memory snapshot (six            *)
(* collections and two flags) and the asynchronous flows that write to the *)
(* store and re-fetch the snapshot.                                        *)
(***************************************************************************)
EXTENDS Integers, Sequences, FiniteSets, TLC

VARIABLES
    db,                 \* the remote store: one function id -> row per table
    customers,          \* useState: enriched customers, id -> object
    services,           \* useState
    appointments,       \* useState
    inventory,          \* useState
    courseDefinitions,  \* useState
    transactions,       \* useState
    isLoadingData,      \* useState
    dbConnectionError,  \* useState: Null or "MISSING_TABLES"
    user,               \* useAuth().user: TRUE when somebody is signed in
    flow,               \* the asynchronous calls in flight, one per slot
    calls,              \* number of mutation calls made so far
    notices             \* what console.error and alert have shown, in order

vars == <<db, customers, services, appointments, inventory, courseDefinitions,
          transactions, isLoadingData, dbConnectionError, user, flow, calls, notices>>

snapshot == <<customers, services, appointments, inventory, courseDefinitions,
              transactions>>

\* Bound: mutation calls per behaviour.
MaxCalls == 2

\* Slots for calls that are in flight at the same time.
Procs == {"p1", "p2"}

\* JavaScript's null / SQL NULL, and JavaScript's undefined.
Null == "NULL"

\* A message of console.error or alert, issued by an operation: text is how
\* the message begins (left empty for the alerts).
Notice(kind, op, text) == [kind |-> kind, op |-> op, text |-> text]

\* An empty array / a table without rows.
Empty == [i \in {} |-> Null]

Max(a, b) == IF a >= b THEN a ELSE b

\* The keys of an object or the ids of a collection.
Keys(f) == DOMAIN f

\* Array.prototype.find by id over a collection finds an element.
Has(coll, id) == id \in DOMAIN coll

\* A JavaScript value that may be undefined: <<>> is undefined, <<v>> is v.
Def(v) == <<v>>
Undef == <<>>

\* data.k of a partial input: undefined when the input has no field k.
Field(data, k) == IF k \in DOMAIN data THEN Def(data[k]) ELSE Undef

\* Object spread {...a, ...b}: b's fields win.
Spread(a, b) == [k \in (DOMAIN a) \cup (DOMAIN b) |-> IF k \in DOMAIN b THEN b[k] ELSE a[k]]

(***************************************************************************)
(* The remote store.                                                       *)
(***************************************************************************)
Tables == {"customers", "services", "appointments", "inventory", "courses",
           "transactions", "customer_courses", "treatment_records"}

\* What the request body carries: JSON.stringify drops the keys whose value is
\* undefined.
JsonBody(payload) == [k \in {c \in DOMAIN payload : payload[c] # Undef} |-> payload[k][1]]

\* insert([row]): the columns of the body, the column defaults of the table
\* for the others, and a generated id.
InsertRow(table, id, defaults, body) ==
    table @@ (id :> Spread(Spread(defaults, body), [id |-> id]))

\* update(body).eq('id', id): only the columns of the body change, only in
\* the row with that id.
UpdateRow(table, id, body) ==
    [i \in DOMAIN table |-> IF i = id THEN Spread(table[i], body) ELSE table[i]]

\* delete().eq('id', id)
DeleteRow(table, id) == [i \in (DOMAIN table) \ {id} |-> table[i]]

\* now(), the default of the timestamp columns; time is not modelled.
Now == "now"

\* The column defaults of the schema, per table. A jsonb list column holds a
\* list; its NULL is the empty list <<>>.
Defaults(t) ==
    CASE t = "inventory" ->
           [name |-> Null, quantity |-> 0, unit |-> Null, min_level |-> 10, price_per_unit |-> 0]
      [] t = "services" ->
           [name |-> Null, price |-> 0, duration_minutes |-> 30, category |-> Null,
            consumables |-> <<>>, image_url |-> Null]
      [] t = "courses" ->
           [name |-> Null, price |-> 0, total_units |-> 1, description |-> Null,
            consumables |-> <<>>]
      [] t = "customers" ->
           [name |-> Null, phone |-> Null, email |-> Null, birth_date |-> Null,
            notes |-> Null, line_id |-> Null, address |-> Null]
      [] t = "customer_courses" ->
           [customer_id |-> Null, course_id |-> Null, course_name |-> Null,
            total_units |-> Null, remaining_units |-> Null, purchase_date |-> Now,
            expiry_date |-> Null, active |-> TRUE]
      [] t = "treatment_records" ->
           [customer_id |-> Null, date |-> Now, treatment_name |-> Null, details |-> Null,
            doctor_name |-> Null, units_used |-> 0, doctor_fee |-> 0]
      [] t = "transactions" ->
           [created_at |-> Now, customer_id |-> Null, total_amount |-> Null,
            payment_method |-> Null, items |-> Null]
      [] t = "appointments" ->
           [customer_id |-> Null, service_id |-> Null, date |-> Null, time |-> Null,
            status |-> Null, doctor_name |-> Null]

\* A write request, as the store client receives it.
InsertReq(t, bodies) == [table |-> t, kind |-> "insert", id |-> 0, bodies |-> bodies]
UpdateReq(t, id, body) == [table |-> t, kind |-> "update", id |-> id, bodies |-> <<body>>]
DeleteReq(t, id) == [table |-> t, kind |-> "delete", id |-> id, bodies |-> <<>>]
\* delete().neq('id', <the zero uuid>): every row of the table.
DeleteAllReq(t) == [table |-> t, kind |-> "deleteAll", id |-> 0, bodies |-> <<>>]

\* The rows of bodies[1..n] inserted into a table, ids taken from next on.
RECURSIVE InsertAll(_, _, _, _, _)
InsertAll(table, t, bodies, n, next) ==
    IF n = 0 THEN table
    ELSE InsertRow(InsertAll(table, t, bodies, n - 1, next), next + n - 1, Defaults(t), bodies[n])

\* The store after it has carried out a request.
Apply(d, req) ==
    LET t == req.table IN
    CASE req.kind = "insert" ->
           [d EXCEPT ![t] = InsertAll(d[t], t, req.bodies, Len(req.bodies), d.nextId),
                     !.nextId = d.nextId + Len(req.bodies)]
      [] req.kind = "update" -> [d EXCEPT ![t] = UpdateRow(d[t], req.id, req.bodies[1])]
      [] req.kind = "delete" -> [d EXCEPT ![t] = DeleteRow(d[t], req.id)]
      [] req.kind = "deleteAll" -> [d EXCEPT ![t] = Empty]

\* The foreign keys of the schema: a child row names an existing customer, a
\* purchased course an existing course definition; a referenced customer or
\* course definition is not deleted.
Accepts(d, req) ==
    CASE req.kind = "insert" ->
           /\ req.table \in {"customer_courses", "treatment_records", "transactions", "appointments"} =>
                 \A n \in 1 .. Len(req.bodies) : req.bodies[n].customer_id \in DOMAIN d.customers
           /\ req.table = "customer_courses" =>
                 \A n \in 1 .. Len(req.bodies) : req.bodies[n].course_id \in DOMAIN d.courses
      [] req.kind = "delete" ->
           /\ req.table = "customers" =>
                 \A t \in {"customer_courses", "treatment_records", "transactions", "appointments"} :
                    \A i \in DOMAIN d[t] : d[t][i].customer_id # req.id
           /\ req.table = "courses" =>
                 \A i \in DOMAIN d.customer_courses : d.customer_courses[i].course_id # req.id
      [] req.kind = "deleteAll" ->
           /\ req.table = "customers" /\ d.customers # Empty =>
                 \A t \in {"customer_courses", "treatment_records", "transactions", "appointments"} :
                    d[t] = Empty
           /\ req.table = "courses" /\ d.courses # Empty => d.customer_courses = Empty
      [] OTHER -> TRUE

\* The answers the store can give to a request: done (TRUE) when the schema
\* accepts it, or an error (FALSE).
Outcomes(d, req) == IF Accepts(d, req) THEN BOOLEAN ELSE {FALSE}

\* The store at the start: two customers, one service, one inventory item,
\* one course definition that consumes it, and one purchased course.
InitDb ==
    [customers |->
        (1 :> [id |-> 1, name |-> "Suda", phone |-> "081", email |-> "suda@example.com",
               birth_date |-> "1990-01-01", notes |-> "allergy", line_id |-> "suda_line",
               address |-> "Bangkok"])
     @@ (2 :> [id |-> 2, name |-> "Wilai", phone |-> "065", email |-> Null,
               birth_date |-> Null, notes |-> Null, line_id |-> Null, address |-> Null]),
     services |->
        (1 :> [id |-> 1, name |-> "Botox", price |-> 100, duration_minutes |-> 30,
               category |-> "Injection", consumables |-> <<>>, image_url |-> Null]),
     appointments |-> Empty,
     inventory |->
        (1 :> [id |-> 1, name |-> "Vitamin C", quantity |-> 3, unit |-> "ampoule",
               min_level |-> 1, price_per_unit |-> 20]),
     courses |->
        (1 :> [id |-> 1, name |-> "IV Drip", price |-> 500, total_units |-> 2,
               description |-> "drip", consumables |-> <<[inventoryItemId |-> 1, quantityUsed |-> 2]>>]),
     transactions |-> Empty,
     customer_courses |->
        (1 :> [id |-> 1, customer_id |-> 1, course_id |-> 1, course_name |-> "IV Drip",
               total_units |-> 2, remaining_units |-> 2, purchase_date |-> Now,
               expiry_date |-> Null, active |-> TRUE]),
     treatment_records |-> Empty,
     nextId |-> 3]

\* A slot with no call in flight. A call in flight holds its operation, its
\* position, its arguments, the state it closed over, the request it awaits, its
\* loop index, the results of its reads, the outcome of each write answered so
\* far, whether a write of it changed the store, and the user it closed over.
Idle == [op |-> "none", pc |-> "idle", args |-> <<>>, closure |-> <<>>, req |-> <<>>,
         k |-> 0, res |-> <<>>, oks |-> <<>>, changed |-> FALSE, user |-> FALSE]

Init ==
    /\ db = InitDb
    /\ customers = Empty
    /\ services = Empty
    /\ appointments = Empty
    /\ inventory = Empty
    /\ courseDefinitions = Empty
    /\ transactions = Empty
    /\ isLoadingData = FALSE
    /\ dbConnectionError = Null
    /\ user = FALSE
    /\ flow = [p \in Procs |-> Idle]
    /\ calls = 0
    /\ notices = {}

(***************************************************************************)
(* refreshData: eight reads in parallel, then the mapping into the six     *)
(* collections.                                                            *)
(***************************************************************************)
\* Every read checked for code 42P01 (a variant of Monitored).
Monitored_all == Tables

\* The reads whose error is checked for code 42P01.
Monitored == {"customers", "services", "appointments", "inventory"}

\* The sets of reads that fail together in one refresh.
FailingReads == {{}} \cup {{t} : t \in Tables} \cup {Tables}

\* The error codes a failed read returns: relation missing, or another error.
ErrorCodes == {"42P01", "XX000"}

\* What Promise.all can bring back: a rejection (thrown), or eight results,
\* each rows (err "none") or an error code with data null.
ReadResults(d) ==
    {[thrown |-> th, err |-> [t \in Tables |-> "none"], data |-> [t \in Tables |-> Empty]] :
        th \in {"relation does not exist", "Failed to fetch"}}
    \cup
    {[thrown |-> "none",
      err |-> [t \in Tables |-> IF t \in F THEN code ELSE "none"],
      data |-> [t \in Tables |-> IF t \in F THEN Empty ELSE d[t]]] :
        F \in FailingReads, code \in ErrorCodes}

\* res.data || [] : the rows of a read, none when it failed.
Rows(res, t) == IF res.err[t] = "none" THEN res.data[t] ELSE Empty

\* A customer_courses row as an element of activeCourses.
MapActiveCourse(cc) ==
    [id |-> cc.id, courseId |-> cc.course_id, courseName |-> cc.course_name,
     totalUnits |-> cc.total_units, remainingUnits |-> cc.remaining_units,
     purchaseDate |-> cc.purchase_date, expiryDate |-> cc.expiry_date, active |-> cc.active]

\* A treatment_records row as an element of treatmentHistory.
MapTreatment(t) ==
    [id |-> t.id, date |-> t.date, treatmentName |-> t.treatment_name, details |-> t.details,
     doctorName |-> t.doctor_name, unitsUsed |-> t.units_used, photos |-> <<>>]

\* (no filter)
ChildrenOf_all(rows, cid) == DOMAIN rows

\* The child rows of a customer: filter by customer_id.
ChildrenOf(rows, cid) == {j \in DOMAIN rows : rows[j].customer_id = cid}

enrichedCustomers(rawCustomers, rawCustCourses, rawTreatments) ==
    [i \in DOMAIN rawCustomers |->
        LET c == rawCustomers[i] IN
        Spread(c, [birthDate |-> c.birth_date,
                   lineId |-> c.line_id,
                   activeCourses |->
                      [j \in ChildrenOf(rawCustCourses, c.id) |-> MapActiveCourse(rawCustCourses[j])],
                   treatmentHistory |->
                      [j \in ChildrenOf(rawTreatments, c.id) |-> MapTreatment(rawTreatments[j])],
                   history |-> <<>>])]

MapService(s) == Spread(s, [durationMinutes |-> s.duration_minutes, imageUrl |-> s.image_url])
MapAppointment(a) ==
    Spread(a, [customerId |-> a.customer_id, serviceId |-> a.service_id, doctorName |-> a.doctor_name])
MapInventory(i) == Spread(i, [minLevel |-> i.min_level, pricePerUnit |-> i.price_per_unit])
MapCourse(c) == Spread(c, [totalUnits |-> c.total_units])
MapTransaction(t) ==
    Spread(t, [date |-> t.created_at, customerId |-> t.customer_id,
               totalAmount |-> t.total_amount, paymentMethod |-> t.payment_method])

\* (the flag is cleared and the reads are issued, the loading flag is left)
CallRefreshData_notLoading(p, f) ==
    IF f.user
    THEN /\ UNCHANGED isLoadingData
         /\ dbConnectionError' = Null
         /\ flow' = [flow EXCEPT ![p] = [Idle EXCEPT !.op = "refreshData", !.pc = "reading",
                                                      !.user = TRUE]]
    ELSE /\ UNCHANGED <<isLoadingData, dbConnectionError>>
         /\ flow' = [flow EXCEPT ![p] = Idle]

\* The synchronous head of refreshData, called by the flow f in slot p: nothing
\* without a user, else the two flags are set and the reads are issued.
CallRefreshData(p, f) ==
    IF f.user
    THEN /\ isLoadingData' = TRUE
         /\ dbConnectionError' = Null
         /\ flow' = [flow EXCEPT ![p] = [Idle EXCEPT !.op = "refreshData", !.pc = "reading",
                                                      !.user = TRUE]]
    ELSE /\ UNCHANGED <<isLoadingData, dbConnectionError>>
         /\ flow' = [flow EXCEPT ![p] = Idle]

\* The sign-in: the effect on [user] calls refreshData.
SignIn(p) ==
    /\ ~user
    /\ flow[p].pc = "idle"
    /\ user' = TRUE
    /\ CallRefreshData(p, [Idle EXCEPT !.op = "refreshData", !.user = TRUE])
    /\ UNCHANGED <<db, snapshot, calls, notices>>

SignOut ==
    /\ user
    /\ user' = FALSE
    /\ UNCHANGED <<db, snapshot, isLoadingData, dbConnectionError, flow, calls, notices>>

\* refreshData called through the context.
RefreshData(p) ==
    /\ user
    /\ flow[p].pc = "idle"
    /\ CallRefreshData(p, [Idle EXCEPT !.op = "refreshData", !.user = TRUE])
    /\ UNCHANGED <<db, snapshot, user, calls, notices>>

\* The store answers the eight reads, some of them with an error, or the
\* request fails.
RefreshRead(p) ==
    /\ flow[p].pc = "reading"
    /\ \E r \in ReadResults(db) :
         flow' = [flow EXCEPT ![p].pc = "fetched", ![p].res = r]
    /\ UNCHANGED <<db, snapshot, isLoadingData, dbConnectionError, user, calls, notices>>

\* The store answers the eight reads, each with its rows.
RefreshReadRows(p) ==
    /\ flow[p].pc = "reading"
    /\ flow' = [flow EXCEPT ![p].pc = "fetched",
                            ![p].res = [thrown |-> "none", err |-> [t \in Tables |-> "none"],
                                        data |-> [t \in Tables |-> db[t]]]]
    /\ UNCHANGED <<db, snapshot, isLoadingData, dbConnectionError, user, calls, notices>>

\* (the first of the monitored results only)
tableMissingError_customers(res) == res.err["customers"] = "42P01"

\* errors.find(e => e?.code === '42P01') over the four monitored results.
tableMissingError(res) == \E t \in Monitored : res.err[t] = "42P01"

\* error?.message?.includes('relation') || error?.code === '42P01'
MentionsRelation(thrown) == thrown = "relation does not exist"

\* The rest of refreshData once Promise.all has settled.
RefreshFinish(p) ==
    /\ flow[p].pc = "fetched"
    /\ LET res == flow[p].res IN
       IF res.thrown # "none"
       THEN /\ dbConnectionError' =
                  IF MentionsRelation(res.thrown) THEN "MISSING_TABLES" ELSE dbConnectionError
            /\ notices' = notices \cup {Notice("console.error", "refreshData", "Error fetching data:")}
            /\ UNCHANGED snapshot
       ELSE IF tableMissingError(res)
       THEN /\ dbConnectionError' = "MISSING_TABLES"
            /\ notices' = notices \cup {Notice("console.error", "refreshData", "Database Tables Missing:")}
            /\ UNCHANGED snapshot
       ELSE /\ customers' = enrichedCustomers(Rows(res, "customers"),
                                              Rows(res, "customer_courses"),
                                              Rows(res, "treatment_records"))
            /\ services' = [i \in DOMAIN Rows(res, "services") |-> MapService(Rows(res, "services")[i])]
            /\ appointments' = [i \in DOMAIN Rows(res, "appointments") |-> MapAppointment(Rows(res, "appointments")[i])]
            /\ inventory' = [i \in DOMAIN Rows(res, "inventory") |-> MapInventory(Rows(res, "inventory")[i])]
            /\ courseDefinitions' = [i \in DOMAIN Rows(res, "courses") |-> MapCourse(Rows(res, "courses")[i])]
            /\ transactions' = [i \in DOMAIN Rows(res, "transactions") |-> MapTransaction(Rows(res, "transactions")[i])]
            /\ UNCHANGED <<dbConnectionError, notices>>
    /\ isLoadingData' = FALSE
    /\ flow' = [flow EXCEPT ![p] = Idle]
    /\ UNCHANGED <<db, user, calls>>

Refresh == \E p \in Procs : SignIn(p) \/ RefreshData(p) \/ RefreshRead(p) \/ RefreshFinish(p)

NextRefresh == Refresh \/ SignOut

SpecRefresh == Init /\ [][NextRefresh]_vars

(***************************************************************************)
(* The composite flows: useCourse, processSale, and updateStock, which     *)
(* read the snapshot of the render they were called from (closure).        *)
(***************************************************************************)
\* A call starts: the closure holds what the call reads, after its first
\* await, of the state of the calling render.
Call(op, args, closure, req) ==
    [Idle EXCEPT !.op = op, !.pc = "await", !.args = args, !.req = req, !.user = user,
                 !.closure = closure]

\* The store carries out the pending request of slot p, or fails it.
Served(p, ok) == IF ok THEN Apply(db, flow[p].req) ELSE db

\* The call in slot p once the answer ok to its pending request has arrived.
Answered(p, ok) ==
    [flow[p] EXCEPT !.oks = Append(flow[p].oks, ok),
                    !.changed = flow[p].changed \/ (Served(p, ok) # db)]

\* ---- useCourse
newRemaining_unclamped(remainingUnits, unitsToUse) == remainingUnits - unitsToUse

newRemaining(remainingUnits, unitsToUse) == Max(0, remainingUnits - unitsToUse)

\* (a decrement of the value the store holds, not of the one the snapshot shows)
UseCourseUpdateReq_ofStore(courseInstance, courseInstanceId, unitsToUse) ==
    LET stored == IF courseInstanceId \in DOMAIN db.customer_courses
                  THEN db.customer_courses[courseInstanceId].remaining_units
                  ELSE courseInstance.remainingUnits
    IN UpdateReq("customer_courses", courseInstanceId,
                 [remaining_units |-> newRemaining(stored, unitsToUse),
                  active |-> newRemaining(stored, unitsToUse) > 0])

UseCourseUpdateReq(courseInstance, courseInstanceId, unitsToUse) ==
    UpdateReq("customer_courses", courseInstanceId,
              [remaining_units |-> newRemaining(courseInstance.remainingUnits, unitsToUse),
               active |-> newRemaining(courseInstance.remainingUnits, unitsToUse) > 0])

UseCourseRecordReq(customerId, unitsToUse, treatmentDetails) ==
    InsertReq("treatment_records",
              <<[customer_id |-> customerId,
                 treatment_name |-> treatmentDetails.treatmentName,
                 details |-> treatmentDetails.details,
                 doctor_name |-> treatmentDetails.doctorName,
                 units_used |-> unitsToUse,
                 doctor_fee |-> treatmentDetails.doctorFee]>>)

\* The course instance the call found under its customer.
courseInstance(f) == f.closure.courseInstance

\* courseDef.consumables, or no consumable when the definition is not found.
Consumables(f) ==
    IF Has(f.closure.courseDefinitions, courseInstance(f).courseId)
    THEN f.closure.courseDefinitions[courseInstance(f).courseId].consumables
    ELSE <<>>

\* (the loop body never runs)
NextCon_none(f, k) == Len(Consumables(f)) + 1

\* The loop over the consumables from position k on: the next one whose
\* inventory item is found in the snapshot, or Len + 1.
RECURSIVE NextCon(_, _)
NextCon(f, k) ==
    IF k > Len(Consumables(f)) THEN k
    ELSE IF Has(f.closure.inventory, Consumables(f)[k].inventoryItemId) THEN k
    ELSE NextCon(f, k + 1)

\* The deduction of the consumable at position k.
newQty_unclamped(quantity, deductAmount) == quantity - deductAmount

newQty(quantity, deductAmount) == Max(0, quantity - deductAmount)

UseCourseDeductReq(f, k) ==
    LET con == Consumables(f)[k]
        invItem == f.closure.inventory[con.inventoryItemId]
        deductAmount == con.quantityUsed * f.args.unitsToUse
    IN UpdateReq("inventory", con.inventoryItemId, [quantity |-> newQty(invItem.quantity, deductAmount)])

UseCourse(p, customerId, courseInstanceId, unitsToUse, treatmentDetails) ==
    /\ flow[p].pc = "idle"
    /\ calls < MaxCalls
    /\ calls' = calls + 1
    /\ IF Has(customers, customerId) /\ Has(customers[customerId].activeCourses, courseInstanceId)
       THEN flow' = [flow EXCEPT ![p] =
                Call("useCourse",
                     [customerId |-> customerId, courseInstanceId |-> courseInstanceId,
                      unitsToUse |-> unitsToUse, treatmentDetails |-> treatmentDetails],
                     [courseInstance |-> customers[customerId].activeCourses[courseInstanceId],
                      courseDefinitions |-> courseDefinitions, inventory |-> inventory],
                     UseCourseUpdateReq(customers[customerId].activeCourses[courseInstanceId],
                                        courseInstanceId, unitsToUse))]
       ELSE UNCHANGED flow
    /\ UNCHANGED <<db, snapshot, isLoadingData, dbConnectionError, user, notices>>

\* The update of the course instance is answered; the treatment record is sent.
UseCourseUpdate(p) ==
    /\ flow[p].op = "useCourse" /\ flow[p].pc = "await"
    /\ \E ok \in Outcomes(db, flow[p].req) :
         /\ db' = Served(p, ok)
         /\ flow' = [flow EXCEPT ![p] =
                [Answered(p, ok) EXCEPT !.pc = "record",
                                        !.req = UseCourseRecordReq(flow[p].args.customerId,
                                                    flow[p].args.unitsToUse,
                                                    flow[p].args.treatmentDetails)]]
    /\ UNCHANGED <<snapshot, isLoadingData, dbConnectionError, user, calls, notices>>

\* After the answer to a write of useCourse: the next deduction from position k
\* on is sent, or refreshData is called.
UseCourseContinue(p, f, k) ==
    IF NextCon(f, k) <= Len(Consumables(f))
    THEN /\ flow' = [flow EXCEPT ![p] = [f EXCEPT !.pc = "deduct", !.k = NextCon(f, k),
                                                  !.req = UseCourseDeductReq(f, NextCon(f, k))]]
         /\ UNCHANGED <<isLoadingData, dbConnectionError>>
    ELSE CallRefreshData(p, f)

\* The insert of the treatment record is answered.
UseCourseRecord(p) ==
    /\ flow[p].op = "useCourse" /\ flow[p].pc = "record"
    /\ \E ok \in Outcomes(db, flow[p].req) :
         /\ db' = Served(p, ok)
         /\ UseCourseContinue(p, Answered(p, ok), 1)
    /\ UNCHANGED <<snapshot, user, calls, notices>>

\* The update of one inventory item is answered.
UseCourseDeduct(p) ==
    /\ flow[p].op = "useCourse" /\ flow[p].pc = "deduct"
    /\ \E ok \in Outcomes(db, flow[p].req) :
         /\ db' = Served(p, ok)
         /\ UseCourseContinue(p, Answered(p, ok), flow[p].k + 1)
    /\ UNCHANGED <<snapshot, user, calls, notices>>

\* ---- processSale
RECURSIVE totalAmount_prices(_)
totalAmount_prices(items) ==
    IF items = <<>> THEN 0
    ELSE totalAmount_prices(SubSeq(items, 1, Len(items) - 1)) + items[Len(items)].price

\* items.reduce((sum, item) => sum + item.price * item.quantity, 0)
RECURSIVE totalAmount(_)
totalAmount(items) ==
    IF items = <<>> THEN 0
    ELSE totalAmount(SubSeq(items, 1, Len(items) - 1))
         + items[Len(items)].price * items[Len(items)].quantity

\* The rows one line item pushes: item.quantity rows when it is a course whose
\* definition is found in the snapshot, none otherwise.
RECURSIVE Pushes(_, _)
Pushes(row, n) == IF n <= 0 THEN <<>> ELSE Append(Pushes(row, n - 1), row)

ItemInserts_once(customerId, item, defs) ==
    IF item.type = "course" /\ Has(defs, item.id)
    THEN <<[customer_id |-> customerId, course_id |-> defs[item.id].id,
            course_name |-> defs[item.id].name, total_units |-> defs[item.id].totalUnits,
            remaining_units |-> defs[item.id].totalUnits, active |-> TRUE]>>
    ELSE <<>>

ItemInserts(customerId, item, defs) ==
    IF item.type = "course" /\ Has(defs, item.id)
    THEN Pushes([customer_id |-> customerId,
                 course_id |-> defs[item.id].id,
                 course_name |-> defs[item.id].name,
                 total_units |-> defs[item.id].totalUnits,
                 remaining_units |-> defs[item.id].totalUnits,
                 active |-> TRUE], item.quantity)
    ELSE <<>>

RECURSIVE courseInserts(_, _, _)
courseInserts(customerId, items, defs) ==
    IF items = <<>> THEN <<>>
    ELSE ItemInserts(customerId, Head(items), defs) \o courseInserts(customerId, Tail(items), defs)

ProcessSaleReq(customerId, items, paymentMethod) ==
    InsertReq("transactions",
              <<[customer_id |-> customerId, total_amount |-> totalAmount(items),
                 payment_method |-> paymentMethod, items |-> items]>>)

\* (the error of the insert is not looked at)
SaleFailed_never(ok) == FALSE

\* if (transError || !transData)
SaleFailed(ok) == ~ok

ProcessSale(p, customerId, items, paymentMethod) ==
    /\ flow[p].pc = "idle"
    /\ calls < MaxCalls
    /\ calls' = calls + 1
    /\ flow' = [flow EXCEPT ![p] =
            Call("processSale",
                 [customerId |-> customerId, items |-> items, paymentMethod |-> paymentMethod],
                 [courseDefinitions |-> courseDefinitions],
                 ProcessSaleReq(customerId, items, paymentMethod))]
    /\ UNCHANGED <<db, snapshot, isLoadingData, dbConnectionError, user, notices>>

\* The insert of the transaction is answered: on an error the sale stops;
\* else the course instances are sent when there are any, else refreshData.
ProcessSaleInsert(p) ==
    /\ flow[p].op = "processSale" /\ flow[p].pc = "await"
    /\ \E ok \in Outcomes(db, flow[p].req) :
         LET f == Answered(p, ok)
             rows == courseInserts(f.args.customerId, f.args.items, f.closure.courseDefinitions)
         IN /\ db' = Served(p, ok)
            /\ IF SaleFailed(ok)
               THEN /\ flow' = [flow EXCEPT ![p] = Idle]
                    /\ notices' = notices \cup {Notice("console.error", "processSale", "Sale failed")}
                    /\ UNCHANGED <<isLoadingData, dbConnectionError>>
               ELSE IF Len(rows) > 0
               THEN /\ flow' = [flow EXCEPT ![p] =
                            [f EXCEPT !.pc = "courses", !.req = InsertReq("customer_courses", rows)]]
                    /\ UNCHANGED <<isLoadingData, dbConnectionError, notices>>
               ELSE /\ CallRefreshData(p, f)
                    /\ UNCHANGED notices
    /\ UNCHANGED <<snapshot, user, calls>>

\* The insert of the course instances is answered.
ProcessSaleCourses(p) ==
    /\ flow[p].op = "processSale" /\ flow[p].pc = "courses"
    /\ \E ok \in Outcomes(db, flow[p].req) :
         /\ db' = Served(p, ok)
         /\ CallRefreshData(p, Answered(p, ok))
    /\ UNCHANGED <<snapshot, user, calls, notices>>

\* ---- updateStock
UpdateStockReq(item, id, quantityChange) ==
    UpdateReq("inventory", id, [quantity |-> Max(0, item.quantity + quantityChange)])

\* (no lookup: the update is sent for any id, from a quantity of 0 when the
\* snapshot has no such item)
UpdateStock_unchecked(p, id, quantityChange) ==
    /\ flow[p].pc = "idle"
    /\ calls < MaxCalls
    /\ calls' = calls + 1
    /\ flow' = [flow EXCEPT ![p] =
            Call("updateStock", [id |-> id, quantityChange |-> quantityChange], <<>>,
                 UpdateReq("inventory", id, [quantity |-> Max(0, quantityChange)]))]
    /\ UNCHANGED <<db, snapshot, isLoadingData, dbConnectionError, user, notices>>

UpdateStock(p, id, quantityChange) ==
    /\ flow[p].pc = "idle"
    /\ calls < MaxCalls
    /\ calls' = calls + 1
    /\ IF Has(inventory, id)
       THEN flow' = [flow EXCEPT ![p] =
                Call("updateStock", [id |-> id, quantityChange |-> quantityChange], <<>>,
                     UpdateStockReq(inventory[id], id, quantityChange))]
       ELSE UNCHANGED flow
    /\ UNCHANGED <<db, snapshot, isLoadingData, dbConnectionError, user, notices>>

\* The update of the quantity is answered.
UpdateStockDone(p) ==
    /\ flow[p].op = "updateStock" /\ flow[p].pc = "await"
    /\ \E ok \in Outcomes(db, flow[p].req) :
         /\ db' = Served(p, ok)
         /\ CallRefreshData(p, Answered(p, ok))
    /\ UNCHANGED <<snapshot, user, calls, notices>>

(***************************************************************************)
(* The inputs.                                                             *)
(***************************************************************************)
\* Ids an argument can name: those the snapshot shows, and 0, which no row has.
IdArgs(coll) == (DOMAIN coll) \cup {0}

\* The course instances the snapshot shows, under any customer.
ShownCourses == UNION {DOMAIN customers[c].activeCourses : c \in DOMAIN customers}

UnitsArgs == {-1, 1, 3}

TreatmentArgs == {[treatmentName |-> "IV Drip", details |-> "ok", doctorName |-> "Dr. A", doctorFee |-> 0]}

\* The sales: a service and a course (700 in all), two of a course, a course
\* the snapshot does not know, no item, one service.
Service100x2 == [type |-> "service", id |-> 1, price |-> 100, quantity |-> 2]
Course500x1 == [type |-> "course", id |-> 1, price |-> 500, quantity |-> 1]
Course500x2 == [type |-> "course", id |-> 1, price |-> 500, quantity |-> 2]
Unknown500x1 == [type |-> "course", id |-> 0, price |-> 500, quantity |-> 1]

SaleArgs ==
    {[customerId |-> 1, items |-> <<Service100x2, Course500x1>>, paymentMethod |-> "cash"],
     [customerId |-> 2, items |-> <<Course500x2>>, paymentMethod |-> "transfer"],
     [customerId |-> 1, items |-> <<Unknown500x1, Course500x1>>, paymentMethod |-> "transfer"],
     [customerId |-> 2, items |-> <<>>, paymentMethod |-> "cash"]}

QuantityChanges == {-5, -1, 2}

Sale ==
    \E p \in Procs :
       \/ \E c \in IdArgs(customers), i \in ShownCourses \cup {0}, u \in UnitsArgs, td \in TreatmentArgs :
             UseCourse(p, c, i, u, td)
       \/ UseCourseUpdate(p)
       \/ UseCourseRecord(p)
       \/ UseCourseDeduct(p)
       \/ \E a \in SaleArgs : ProcessSale(p, a.customerId, a.items, a.paymentMethod)
       \/ ProcessSaleInsert(p)
       \/ ProcessSaleCourses(p)
       \/ \E i \in IdArgs(inventory), q \in QuantityChanges : UpdateStock(p, i, q)
       \/ UpdateStockDone(p)

\* The refreshes of a session that stays signed in and whose reads succeed.
RefreshRows == \E p \in Procs : SignIn(p) \/ RefreshReadRows(p) \/ RefreshFinish(p)

Next == Sale \/ RefreshRows

Spec == Init /\ [][Next]_vars

(***************************************************************************)
(* The operations with one write: add, update and delete of each entity.   *)
(***************************************************************************)
\* if (data.k): a string that is present, not empty and not null.
TruthyStr(f) == f # Undef /\ f[1] # "" /\ f[1] # Null

\* if (data.k) for a list: any list that is present, the empty one included.
TruthyList(f) == f # Undef

\* if (data.k !== undefined)
Defined(f) == f # Undef

\* if (cond) updatePayload.k = v : the key is set, or stays out of the payload.
SetIf(cond, f) == IF cond THEN f ELSE Undef

AddAppointmentReq(apt) ==
    InsertReq("appointments",
              <<JsonBody([customer_id |-> Field(apt, "customerId"), service_id |-> Field(apt, "serviceId"),
                          date |-> Field(apt, "date"), time |-> Field(apt, "time"),
                          status |-> Field(apt, "status"), doctor_name |-> Field(apt, "doctorName")])>>)

UpdateAppointmentStatusReq(id, status) == UpdateReq("appointments", id, [status |-> status])

AddCustomerReq(customer) ==
    InsertReq("customers",
              <<JsonBody([name |-> Field(customer, "name"), phone |-> Field(customer, "phone"),
                          email |-> Field(customer, "email"), birth_date |-> Field(customer, "birthDate"),
                          notes |-> Field(customer, "notes"), line_id |-> Field(customer, "lineId"),
                          address |-> Field(customer, "address")])>>)

\* (every column sent, null for a field the input does not have)
UpdateCustomerReq_full(id, data) ==
    LET OrNull(k) == IF k \in DOMAIN data THEN data[k] ELSE Null IN
    UpdateReq("customers", id,
              [name |-> OrNull("name"), phone |-> OrNull("phone"), email |-> OrNull("email"),
               birth_date |-> OrNull("birthDate"), notes |-> OrNull("notes"),
               address |-> OrNull("address"), line_id |-> OrNull("lineId")])

UpdateCustomerReq(id, data) ==
    UpdateReq("customers", id,
              JsonBody([name |-> Field(data, "name"), phone |-> Field(data, "phone"),
                        email |-> Field(data, "email"), birth_date |-> Field(data, "birthDate"),
                        notes |-> Field(data, "notes"), address |-> Field(data, "address"),
                        line_id |-> Field(data, "lineId")]))

AddServiceReq(service) ==
    InsertReq("services",
              <<JsonBody([name |-> Field(service, "name"), price |-> Field(service, "price"),
                          duration_minutes |-> Field(service, "durationMinutes"),
                          category |-> Field(service, "category"),
                          consumables |-> Field(service, "consumables"),
                          image_url |-> Field(service, "imageUrl")])>>)

UpdateServiceReq(id, data) ==
    UpdateReq("services", id,
              JsonBody([name |-> SetIf(TruthyStr(Field(data, "name")), Field(data, "name")),
                        price |-> SetIf(Defined(Field(data, "price")), Field(data, "price")),
                        duration_minutes |-> SetIf(Defined(Field(data, "durationMinutes")),
                                                   Field(data, "durationMinutes")),
                        category |-> SetIf(TruthyStr(Field(data, "category")), Field(data, "category")),
                        consumables |-> SetIf(TruthyList(Field(data, "consumables")),
                                              Field(data, "consumables")),
                        image_url |-> SetIf(Defined(Field(data, "imageUrl")), Field(data, "imageUrl"))]))

AddInventoryItemReq(item) ==
    InsertReq("inventory",
              <<JsonBody([name |-> Field(item, "name"), quantity |-> Field(item, "quantity"),
                          unit |-> Field(item, "unit"), min_level |-> Field(item, "minLevel"),
                          price_per_unit |-> Field(item, "pricePerUnit")])>>)

UpdateInventoryItemReq(id, data) ==
    UpdateReq("inventory", id,
              JsonBody([name |-> SetIf(TruthyStr(Field(data, "name")), Field(data, "name")),
                        quantity |-> SetIf(Defined(Field(data, "quantity")), Field(data, "quantity")),
                        unit |-> SetIf(TruthyStr(Field(data, "unit")), Field(data, "unit")),
                        min_level |-> SetIf(Defined(Field(data, "minLevel")), Field(data, "minLevel")),
                        price_per_unit |-> SetIf(Defined(Field(data, "pricePerUnit")),
                                                 Field(data, "pricePerUnit"))]))

AddCourseReq(course) ==
    InsertReq("courses",
              <<JsonBody([name |-> Field(course, "name"), price |-> Field(course, "price"),
                          total_units |-> Field(course, "totalUnits"),
                          description |-> Field(course, "description"),
                          consumables |-> Field(course, "consumables")])>>)

UpdateCourseReq(id, data) ==
    UpdateReq("courses", id,
              JsonBody([name |-> SetIf(TruthyStr(Field(data, "name")), Field(data, "name")),
                        price |-> SetIf(Defined(Field(data, "price")), Field(data, "price")),
                        total_units |-> SetIf(Defined(Field(data, "totalUnits")), Field(data, "totalUnits")),
                        description |-> SetIf(TruthyStr(Field(data, "description")),
                                              Field(data, "description")),
                        consumables |-> SetIf(TruthyList(Field(data, "consumables")),
                                              Field(data, "consumables"))]))

\* A call of an operation with one write: the request is sent.
Write(p, op, args, req) ==
    /\ flow[p].pc = "idle"
    /\ calls < MaxCalls
    /\ calls' = calls + 1
    /\ flow' = [flow EXCEPT ![p] = Call(op, args, <<>>, req)]
    /\ UNCHANGED <<db, snapshot, isLoadingData, dbConnectionError, user, notices>>

AddAppointment(p, apt) == Write(p, "addAppointment", [apt |-> apt], AddAppointmentReq(apt))
UpdateAppointmentStatus(p, id, status) ==
    Write(p, "updateAppointmentStatus", [id |-> id, status |-> status], UpdateAppointmentStatusReq(id, status))
DeleteAppointment(p, id) == Write(p, "deleteAppointment", [id |-> id], DeleteReq("appointments", id))
AddCustomer(p, customer) == Write(p, "addCustomer", [customer |-> customer], AddCustomerReq(customer))
UpdateCustomer(p, id, data) == Write(p, "updateCustomer", [id |-> id, data |-> data], UpdateCustomerReq(id, data))
DeleteCustomer(p, id) == Write(p, "deleteCustomer", [id |-> id], DeleteReq("customers", id))
AddService(p, service) == Write(p, "addService", [service |-> service], AddServiceReq(service))
UpdateService(p, id, data) == Write(p, "updateService", [id |-> id, data |-> data], UpdateServiceReq(id, data))
DeleteService(p, id) == Write(p, "deleteService", [id |-> id], DeleteReq("services", id))
AddInventoryItem(p, item) == Write(p, "addInventoryItem", [item |-> item], AddInventoryItemReq(item))
UpdateInventoryItem(p, id, data) ==
    Write(p, "updateInventoryItem", [id |-> id, data |-> data], UpdateInventoryItemReq(id, data))
DeleteInventoryItem(p, id) == Write(p, "deleteInventoryItem", [id |-> id], DeleteReq("inventory", id))
AddCourse(p, course) == Write(p, "addCourse", [course |-> course], AddCourseReq(course))
UpdateCourse(p, id, data) == Write(p, "updateCourse", [id |-> id, data |-> data], UpdateCourseReq(id, data))
DeleteCourse(p, id) == Write(p, "deleteCourse", [id |-> id], DeleteReq("courses", id))

\* The operations that call refreshData whatever the answer to their write.
AlwaysRefresh == {"addAppointment", "updateAppointmentStatus", "updateCustomer", "addInventoryItem"}

\* The operations that show an alert on an error and call refreshData only
\* when there is none.
AlertOrRefresh == {"deleteAppointment", "addCustomer", "deleteCustomer", "addService",
                   "updateService", "deleteService", "updateInventoryItem",
                   "deleteInventoryItem", "addCourse", "updateCourse", "deleteCourse"}

\* (refreshData called on an error only)
RefreshesAfter_error(op, ok) == ~ok

\* What the operation shows after the answer ok to its write: an alert on an
\* error where the code has one, and addCustomer's console.error before it.
Shown(op, ok) ==
    IF ok \/ op \notin AlertOrRefresh THEN {}
    ELSE IF op = "addCustomer"
    THEN {Notice("console.error", op, "Add customer error:"), Notice("alert", op, "")}
    ELSE {Notice("alert", op, "")}

\* Whether the operation calls refreshData after the answer ok to its write.
RefreshesAfter(op, ok) == IF op \in AlwaysRefresh THEN TRUE ELSE ok

\* The write of an operation with one write is answered.
WriteDone(p) ==
    /\ flow[p].op \in AlwaysRefresh \cup AlertOrRefresh /\ flow[p].pc = "await"
    /\ \E ok \in Outcomes(db, flow[p].req) :
         /\ db' = Served(p, ok)
         /\ notices' = notices \cup Shown(flow[p].op, ok)
         /\ IF RefreshesAfter(flow[p].op, ok)
            THEN CallRefreshData(p, Answered(p, ok))
            ELSE /\ flow' = [flow EXCEPT ![p] = Idle]
                 /\ UNCHANGED <<isLoadingData, dbConnectionError>>
    /\ UNCHANGED <<snapshot, user, calls>>

\* The inputs of these operations.
AppointmentArgs == {[customerId |-> c, serviceId |-> 1, date |-> "2026-01-05", time |-> "10:00",
                      status |-> "scheduled", doctorName |-> "Dr. A"] : c \in {0, 1}}
StatusArgs == {"completed"}
CustomerArgs == {[name |-> "Somchai", phone |-> "089"]}
CustomerUpdates == {[phone |-> "099"], [name |-> "Suda J", email |-> "suda@clinic.example"]}
ServiceArgs == {[name |-> "Laser", price |-> 1500, durationMinutes |-> 20, category |-> "Laser"]}
ServiceUpdates == {[name |-> ""], [price |-> 0, imageUrl |-> ""], [category |-> "Lifting", consumables |-> <<>>]}
InventoryArgs == {[name |-> "Gloves", quantity |-> 10, unit |-> "pair", minLevel |-> 1, pricePerUnit |-> 1]}
InventoryUpdates == {[quantity |-> 0], [unit |-> ""], [name |-> "Vitamin C 500", minLevel |-> 0]}
CourseArgs == {[name |-> "Acne Clear", price |-> 4500, totalUnits |-> 5, description |-> "acne"]}
CourseUpdates == {[description |-> ""], [totalUnits |-> 3, consumables |-> <<>>], [name |-> "IV Drip Plus"]}

Crud ==
    \E p \in Procs :
       \/ \E apt \in AppointmentArgs : AddAppointment(p, apt)
       \/ \E i \in IdArgs(appointments), st \in StatusArgs : UpdateAppointmentStatus(p, i, st)
       \/ \E i \in IdArgs(appointments) : DeleteAppointment(p, i)
       \/ \E c \in CustomerArgs : AddCustomer(p, c)
       \/ \E i \in IdArgs(customers), d \in CustomerUpdates : UpdateCustomer(p, i, d)
       \/ \E i \in IdArgs(customers) : DeleteCustomer(p, i)
       \/ \E sv \in ServiceArgs : AddService(p, sv)
       \/ \E i \in IdArgs(services), d \in ServiceUpdates : UpdateService(p, i, d)
       \/ \E i \in IdArgs(services) : DeleteService(p, i)
       \/ \E it \in InventoryArgs : AddInventoryItem(p, it)
       \/ \E i \in IdArgs(inventory), d \in InventoryUpdates : UpdateInventoryItem(p, i, d)
       \/ \E i \in IdArgs(inventory) : DeleteInventoryItem(p, i)
       \/ \E c \in CourseArgs : AddCourse(p, c)
       \/ \E i \in IdArgs(courseDefinitions), d \in CourseUpdates : UpdateCourse(p, i, d)
       \/ \E i \in IdArgs(courseDefinitions) : DeleteCourse(p, i)
       \/ WriteDone(p)

\* The stock updates alone.
Stock ==
    \E p \in Procs :
       \/ \E i \in IdArgs(inventory), q \in QuantityChanges : UpdateStock(p, i, q)
       \/ UpdateStockDone(p)

\* Stock updates in a session that refreshes at will and whose reads may fail.
NextFaulty == Stock \/ Refresh

SpecFaulty == Init /\ [][NextFaulty]_vars

\* The collections a refresh stores from the rows of the store d.
SnapshotOf(d) ==
    <<enrichedCustomers(d.customers, d.customer_courses, d.treatment_records),
      [i \in DOMAIN d.services |-> MapService(d.services[i])],
      [i \in DOMAIN d.appointments |-> MapAppointment(d.appointments[i])],
      [i \in DOMAIN d.inventory |-> MapInventory(d.inventory[i])],
      [i \in DOMAIN d.courses |-> MapCourse(d.courses[i])],
      [i \in DOMAIN d.transactions |-> MapTransaction(d.transactions[i])]>>

\* A session after the sign-in and its first refresh.
InitSession ==
    /\ db = InitDb
    /\ customers = SnapshotOf(InitDb)[1]
    /\ services = SnapshotOf(InitDb)[2]
    /\ appointments = SnapshotOf(InitDb)[3]
    /\ inventory = SnapshotOf(InitDb)[4]
    /\ courseDefinitions = SnapshotOf(InitDb)[5]
    /\ transactions = SnapshotOf(InitDb)[6]
    /\ isLoadingData = FALSE
    /\ dbConnectionError = Null
    /\ user = TRUE
    /\ flow = [p \in Procs |-> Idle]
    /\ calls = 0
    /\ notices = {}

\* The sale flows and their refreshes, every read answered with rows.
NextSession == Sale \/ \E p \in Procs : RefreshReadRows(p) \/ RefreshFinish(p)

SpecSession == InitSession /\ [][NextSession]_vars

\* Every operation that writes, before and after the sign-in.
NextAll == Crud \/ Sale \/ RefreshRows

SpecAll == Init /\ [][NextAll]_vars

(***************************************************************************)
(* Properties of the sale and redemption flows.                            *)
(***************************************************************************)
\* The calls in flight that are a useCourse / processSale / updateStock call
\* before its refresh.
Redeeming(p) == flow[p].op = "useCourse" /\ flow[p].pc \in {"await", "record", "deduct"}
Selling(p) == flow[p].op = "processSale" /\ flow[p].pc \in {"await", "courses"}

\* C1: the course-instance row a redemption writes has remaining_units >= 0
\* and active = (remaining_units > 0): in the update it sends, and in the row
\* of the store once the update has been carried out.
C1_RedeemedRowValid ==
    \A p \in Procs :
       /\ Redeeming(p) /\ flow[p].pc = "await" =>
             LET body == flow[p].req.bodies[1] IN
             /\ flow[p].req.table = "customer_courses"
             /\ body.remaining_units >= 0
             /\ body.active = (body.remaining_units > 0)
       /\ Redeeming(p) /\ flow[p].pc # "await" /\ flow[p].oks[1]
          /\ flow[p].args.courseInstanceId \in DOMAIN db.customer_courses =>
             LET row == db.customer_courses[flow[p].args.courseInstanceId] IN
             /\ row.remaining_units >= 0
             /\ row.active = (row.remaining_units > 0)

\* C1 witness: a redemption of 3 units against 2 remaining has been written:
\* the row holds 0 units and is inactive.
C1_Witness ==
    \E p \in Procs :
       /\ Redeeming(p) /\ flow[p].pc = "record" /\ flow[p].oks[1]
       /\ flow[p].args.unitsToUse = 3
       /\ flow[p].closure.courseInstance.remainingUnits = 2
       /\ db.customer_courses[flow[p].args.courseInstanceId].remaining_units = 0
       /\ ~db.customer_courses[flow[p].args.courseInstanceId].active

\* C2: every quantity a deduction writes (updateStock, and each consumable of
\* useCourse) is >= 0, in the update sent and in the store.
C2_QuantityNonNegative ==
    /\ \A p \in Procs :
          (Redeeming(p) /\ flow[p].pc = "deduct") \/ (flow[p].op = "updateStock" /\ flow[p].pc = "await") =>
             /\ flow[p].req.table = "inventory"
             /\ flow[p].req.bodies[1].quantity >= 0
    /\ \A i \in DOMAIN db.inventory : db.inventory[i].quantity >= 0

\* C2 witness: a redemption asks for 6 of an item the snapshot holds 3 of, and
\* sends quantity 0, while the store holds 0 after an earlier deduction.
C2_Witness ==
    \E p \in Procs :
       /\ Redeeming(p) /\ flow[p].pc = "deduct"
       /\ flow[p].closure.inventory[1].quantity = 3
       /\ flow[p].args.unitsToUse * Consumables(flow[p])[flow[p].k].quantityUsed = 6
       /\ flow[p].req.bodies[1].quantity = 0
       /\ db.inventory[1].quantity = 0

\* C3: every course-instance row of the store has
\* 0 <= remaining_units <= total_units.
C3_UnitsWithinTotal ==
    \A i \in DOMAIN db.customer_courses :
       /\ 0 <= db.customer_courses[i].remaining_units
       /\ db.customer_courses[i].remaining_units <= db.customer_courses[i].total_units

\* Sum of price x quantity over the line items, from the first item on.
RECURSIVE LineSum(_)
LineSum(items) ==
    IF items = <<>> THEN 0 ELSE Head(items).price * Head(items).quantity + LineSum(Tail(items))

\* C5: a processSale call sends one insert of one transaction row, whose
\* total_amount is the sum of price x quantity over the items, with the
\* customer id, the payment method and the item list as given; it sends no
\* second one, and the row is in the store once the insert has succeeded.
C5_OneTransactionRow ==
    \A p \in Procs : Selling(p) =>
       LET a == flow[p].args
           row == [customer_id |-> a.customerId, total_amount |-> LineSum(a.items),
                   payment_method |-> a.paymentMethod, items |-> a.items]
       IN /\ flow[p].pc = "await" =>
                /\ flow[p].req.table = "transactions" /\ flow[p].req.kind = "insert"
                /\ flow[p].req.bodies = <<row>>
                /\ flow[p].oks = <<>>
          /\ flow[p].pc = "courses" =>
                /\ flow[p].req.table = "customer_courses"
                /\ flow[p].oks = <<TRUE>>
                /\ \E i \in DOMAIN db.transactions :
                      db.transactions[i] = Spread(Spread(Defaults("transactions"), row), [id |-> i])

\* C5 witness: the sale of two services at 100 and one course at 500 is
\* recorded with total_amount 700.
C5_Witness ==
    \E p \in Procs :
       /\ Selling(p) /\ flow[p].pc = "courses"
       /\ flow[p].args.items = <<Service100x2, Course500x1>>
       /\ \E i \in DOMAIN db.transactions :
             /\ db.transactions[i].total_amount = 700
             /\ db.transactions[i].customer_id = 1
             /\ db.transactions[i].payment_method = "cash"
             /\ db.transactions[i].items = flow[p].args.items

\* The quantity asked of course d by the first n line items.
RECURSIVE QtyOf(_, _, _)
QtyOf(items, d, n) ==
    IF n = 0 THEN 0
    ELSE QtyOf(items, d, n - 1)
         + (IF items[n].type = "course" /\ items[n].id = d THEN Max(0, items[n].quantity) ELSE 0)

\* The course ids the line items of kind course name.
CourseIdsOf(items) == {items[n].id : n \in {m \in 1 .. Len(items) : items[m].type = "course"}}

\* The course-instance rows a step adds.
AddedCourses == (DOMAIN db'.customer_courses) \ (DOMAIN db.customer_courses)

\* The step in which the sale of slot p gets the answer to its insert of course
\* instances, and the insert has succeeded.
CoursesInserted(p) ==
    /\ Selling(p) /\ flow[p].pc = "courses" /\ flow'[p].pc # "courses"
    /\ db'.customer_courses # db.customer_courses

\* The step in which the sale of slot p gets the answer to its insert of the
\* transaction, the insert has succeeded, and the sale sends no course instance.
SoldWithoutCourses(p) ==
    /\ Selling(p) /\ flow[p].pc = "await" /\ flow'[p].pc \notin {"await", "courses"}
    /\ db'.transactions # db.transactions

\* What C4 asks of the rows added for course d, the items asking n of it, each
\* with the total units u.
AddsOf(p, d, n, u) ==
    /\ Cardinality({i \in AddedCourses : db'.customer_courses[i].course_id = d}) = n
    /\ \A i \in AddedCourses : db'.customer_courses[i].course_id = d =>
          /\ db'.customer_courses[i].customer_id = flow[p].args.customerId
          /\ db'.customer_courses[i].total_units = u
          /\ db'.customer_courses[i].remaining_units = u
          /\ db'.customer_courses[i].active = TRUE

\* C4 as claimed: a sale whose transaction insert succeeds adds, for every
\* line item of kind course, exactly quantity rows.
C4_EveryCourseItemAdds ==
    [][\A p \in Procs :
          /\ CoursesInserted(p) =>
                \A d \in CourseIdsOf(flow[p].args.items) :
                   Cardinality({i \in AddedCourses : db'.customer_courses[i].course_id = d})
                      = QtyOf(flow[p].args.items, d, Len(flow[p].args.items))
          /\ SoldWithoutCourses(p) =>
                \A d \in CourseIdsOf(flow[p].args.items) :
                   QtyOf(flow[p].args.items, d, Len(flow[p].args.items)) = 0
      ]_vars

\* C4 as amended: when the insert of course instances succeeds it adds, for
\* every course id the snapshot of the call holds, as many rows as the items of
\* kind course ask of it, each for that customer with remaining_units =
\* total_units = the totalUnits of the snapshot's definition and active; it
\* adds no row for another id and changes no other row; and a sale that sends
\* no course instance has no item of kind course with a quantity > 0 whose id
\* the snapshot holds.
C4_KnownCourseItemsAdd ==
    [][\A p \in Procs :
          LET items == flow[p].args.items
              defs == flow[p].closure.courseDefinitions
          IN /\ CoursesInserted(p) =>
                   /\ \A d \in DOMAIN defs :
                         AddsOf(p, d, QtyOf(items, d, Len(items)), defs[d].totalUnits)
                   /\ \A i \in AddedCourses : db'.customer_courses[i].course_id \in DOMAIN defs
                   /\ \A i \in DOMAIN db.customer_courses :
                         db'.customer_courses[i] = db.customer_courses[i]
             /\ SoldWithoutCourses(p) =>
                   /\ \A d \in DOMAIN defs : QtyOf(items, d, Len(items)) = 0
                   /\ db'.customer_courses = db.customer_courses
      ]_vars

\* C4 witness: the sale of two of course 1 to customer 2 has added two rows of
\* 2 of 2 units, and the sale of an unknown course and of course 1 to
\* customer 1 is about to add one row.
C4_Witness ==
    /\ Cardinality({i \in DOMAIN db.customer_courses :
                       /\ db.customer_courses[i].customer_id = 2
                       /\ db.customer_courses[i].course_id = 1
                       /\ db.customer_courses[i].total_units = 2
                       /\ db.customer_courses[i].remaining_units = 2
                       /\ db.customer_courses[i].active}) = 2
    /\ \E p \in Procs :
          /\ Selling(p) /\ flow[p].pc = "courses"
          /\ flow[p].args.items = <<Unknown500x1, Course500x1>>
          /\ Len(flow[p].req.bodies) = 1

\* C9: two redemptions of the same course instance that both read R remaining
\* units and whose updates have both succeeded leave max(0, R - u1) or
\* max(0, R - u2) in the store, and each treatment record whose insert has
\* succeeded is in the store.
C9_LastWriterWins ==
    \A p, q \in Procs :
       /\ p # q /\ Redeeming(p) /\ Redeeming(q)
       /\ flow[p].pc # "await" /\ flow[q].pc # "await"
       /\ flow[p].oks[1] /\ flow[q].oks[1]
       /\ flow[p].args.courseInstanceId = flow[q].args.courseInstanceId
       /\ flow[p].closure.courseInstance.remainingUnits = flow[q].closure.courseInstance.remainingUnits
       /\ flow[p].args.courseInstanceId \in DOMAIN db.customer_courses
       => LET R == flow[p].closure.courseInstance.remainingUnits
              row == db.customer_courses[flow[p].args.courseInstanceId]
              Recorded(r, i) == /\ flow[r].pc = "deduct" /\ flow[r].oks[2]
                                   => /\ i \in DOMAIN db.treatment_records
                                      /\ db.treatment_records[i].customer_id = flow[r].args.customerId
                                      /\ db.treatment_records[i].units_used = flow[r].args.unitsToUse
          IN /\ row.remaining_units \in {Max(0, R - flow[p].args.unitsToUse),
                                         Max(0, R - flow[q].args.unitsToUse)}
             /\ \E i, j \in (DOMAIN db.treatment_records) \cup {0} :
                   /\ (i = j => i = 0)
                   /\ Recorded(p, i) /\ Recorded(q, j)

\* C9 witness: two redemptions of 1 unit each have read 2 remaining units, both
\* updates and both inserts have succeeded, two treatment records are stored,
\* and the store holds 1 remaining unit, not max(0, 2 - 1 - 1) = 0.
C9_Witness ==
    /\ \A p \in Procs :
          /\ Redeeming(p) /\ flow[p].pc = "deduct"
          /\ flow[p].oks = <<TRUE, TRUE>>
          /\ flow[p].args.courseInstanceId = 1
          /\ flow[p].args.unitsToUse = 1
          /\ flow[p].closure.courseInstance.remainingUnits = 2
    /\ db.customer_courses[1].remaining_units = 1
    /\ Cardinality({i \in DOMAIN db.treatment_records : db.treatment_records[i].units_used = 1}) = 2

(***************************************************************************)
(* Properties of the refresh and of the operations with one write.         *)
(***************************************************************************)
\* The refresh in slot p has the answers of its reads, one of them on a
\* monitored table being the relation-missing signal.
GotRelationMissing(p) ==
    /\ flow[p].op = "refreshData" /\ flow[p].pc = "fetched"
    /\ flow[p].res.thrown = "none"
    /\ \E t \in Monitored : flow[p].res.err[t] = "42P01"

\* The step that ends the refresh of slot p.
Finishes(p) == flow[p].pc = "fetched" /\ flow'[p].pc = "idle"

\* C6 (as stated): a refresh that got the relation-missing signal (42P01) on
\* a monitored read ends with the six collections empty and the
\* schema-missing flag set.
C6_MissingRelationEmpties ==
    [][\A p \in Procs :
         GotRelationMissing(p) /\ Finishes(p) =>
            /\ customers' = Empty /\ services' = Empty /\ appointments' = Empty
            /\ inventory' = Empty /\ courseDefinitions' = Empty /\ transactions' = Empty
            /\ dbConnectionError' = "MISSING_TABLES"]_vars

\* C6 (amended): a refresh that got the relation-missing signal (42P01) on a
\* monitored read ends with the six collections as they were before it ended
\* (nothing of its results is stored), the schema-missing flag set and the
\* loading flag cleared.
C6_MissingRelationKeepsSnapshot ==
    [][\A p \in Procs :
         GotRelationMissing(p) /\ Finishes(p) =>
            /\ snapshot' = snapshot
            /\ dbConnectionError' = "MISSING_TABLES"
            /\ ~isLoadingData']_vars

\* A refresh holds the relation-missing signal of the inventory read, and
\* rows of the other tables, while the snapshot shows an earlier refresh.
C6_Witness ==
    \E p \in Procs :
       /\ GotRelationMissing(p)
       /\ flow[p].res.err["inventory"] = "42P01"
       /\ flow[p].res.err["customers"] = "none"
       /\ customers # Empty /\ inventory # Empty
       /\ dbConnectionError = Null

\* The column of a field (camelCase in memory, snake_case in the store).
Column(k) ==
    CASE k = "birthDate" -> "birth_date"
      [] k = "lineId" -> "line_id"
      [] k = "durationMinutes" -> "duration_minutes"
      [] k = "imageUrl" -> "image_url"
      [] k = "minLevel" -> "min_level"
      [] k = "pricePerUnit" -> "price_per_unit"
      [] k = "totalUnits" -> "total_units"
      [] OTHER -> k

Columns(data) == {Column(k) : k \in DOMAIN data}

\* The write of the call in slot p is answered.
WriteAnswered(p, op) == flow[p].op = op /\ flow[p].pc = "await" /\ flow'[p].op # op

\* C7: the write of updateCustomer(id, data) leaves unchanged every column
\* of the row id that is not a field of data, and every other customer row.
C7_UpdateCustomerFrame ==
    [][\A p \in Procs :
         WriteAnswered(p, "updateCustomer") =>
            /\ DOMAIN db'.customers = DOMAIN db.customers
            /\ \A c \in DOMAIN db.customers :
                  /\ DOMAIN db'.customers[c] = DOMAIN db.customers[c]
                  /\ \A k \in DOMAIN db.customers[c] :
                        (c # flow[p].args.id \/ k \notin Columns(flow[p].args.data))
                           => db'.customers[c][k] = db.customers[c][k]]_vars

\* The phone of customer 1 has been updated, and nothing else of the row.
C7_Witness ==
    /\ 1 \in DOMAIN db.customers
    /\ db.customers[1].phone = "099"
    /\ \A k \in DOMAIN InitDb.customers[1] \ {"phone"} : db.customers[1][k] = InitDb.customers[1][k]
    /\ db.customers[2] = InitDb.customers[2]

\* C8 (as stated): the columns in the request of updateService,
\* updateInventoryItem and updateCourse are the fields present in the input,
\* whatever their values.
C8_ColumnsAreFieldsPresent ==
    \A p \in Procs :
       flow[p].op \in {"updateService", "updateInventoryItem", "updateCourse"} /\ flow[p].pc = "await"
          => DOMAIN flow[p].req.bodies[1] = Columns(flow[p].args.data)

\* The operations that write to the store.
MutationOps == AlwaysRefresh \cup AlertOrRefresh \cup {"updateStock", "processSale", "useCourse"}

\* The call in slot p returns.
Returns(p) == flow[p].op \in MutationOps /\ flow'[p].op # flow[p].op

\* The call in slot p has changed the store, in this step or before.
ChangedStore(p) == flow[p].changed \/ db' # db

\* refreshData has set the loading flag and issued its reads in slot p.
RefreshStarted(p) == flow'[p].op = "refreshData" /\ flow'[p].pc = "reading" /\ isLoadingData'

\* Only the end of a refresh changes a collection of the snapshot.
OnlyRefreshStores == snapshot' # snapshot => \E p \in Procs : Finishes(p)

\* C10 (as stated): a mutation that has changed the store has started a
\* refresh when it returns, and no mutation changes a collection itself.
C10_EveryMutationRefreshes ==
    [][/\ \A p \in Procs : Returns(p) /\ ChangedStore(p) => RefreshStarted(p)
       /\ OnlyRefreshStores]_vars

\* C10 (amended): a mutation called with a user signed in that has changed
\* the store has started a refresh when it returns, and no mutation changes
\* a collection itself.
C10_SignedInMutationRefreshes ==
    [][/\ \A p \in Procs : Returns(p) /\ ChangedStore(p) /\ flow[p].user => RefreshStarted(p)
       /\ OnlyRefreshStores]_vars

\* The one call made has changed the store and turned into a refresh: two
\* refreshes are reading, of which the sign-in started only one.
C10_Witness ==
    /\ calls = 1
    /\ db # InitDb
    /\ isLoadingData
    /\ \A p \in Procs : flow[p].op = "refreshData" /\ flow[p].pc = "reading"

(***************************************************************************)
(* Properties of lookups, failures and the order of writes.                *)
(***************************************************************************)
\* Nothing but the count of calls changes.
NoEffect == UNCHANGED <<db, snapshot, isLoadingData, dbConnectionError, user, flow, notices>>

\* customers.find(...) and customer.activeCourses.find(...) both find.
FindsCourse(customerId, courseInstanceId) ==
    /\ customerId \in DOMAIN customers
    /\ courseInstanceId \in DOMAIN customers[customerId].activeCourses

\* C11: a useCourse call whose customer or course instance is not found in
\* the snapshot, and an updateStock call whose item is not found, send no
\* request, start no refresh, show no message and leave the store and the
\* snapshot unchanged.
C11_LookupMissIsNoOp ==
    [][\A p \in Procs :
         /\ \A c \in IdArgs(customers), i \in ShownCourses \cup {0}, u \in UnitsArgs, td \in TreatmentArgs :
               UseCourse(p, c, i, u, td) /\ ~FindsCourse(c, i) => NoEffect
         /\ \A i \in IdArgs(inventory), q \in QuantityChanges :
               UpdateStock(p, i, q) /\ i \notin DOMAIN inventory => NoEffect]_vars

\* Calls were made on the empty snapshot of a signed-out session (no lookup
\* finds anything): nothing is in flight, nothing was written or shown.
C11_Witness ==
    /\ ~user /\ calls = 2
    /\ customers = Empty /\ inventory = Empty
    /\ \A p \in Procs : flow[p].pc = "idle"
    /\ db = InitDb /\ notices = {} /\ ~isLoadingData

\* The insert of the transaction of the sale in slot p is answered with an
\* error: the call leaves its first await and no transaction row is added.
SaleInsertFails(p) ==
    /\ flow[p].op = "processSale" /\ flow[p].pc = "await"
    /\ flow'[p] # flow[p]
    /\ db'.transactions = db.transactions

\* C12: when the transaction insert of processSale fails, the call returns:
\* nothing of it stays in flight (no course-instance insert, no refresh, no
\* other write), and the store, the snapshot and the flags are unchanged.
C12_FailedSaleStops ==
    [][\A p \in Procs :
         SaleInsertFails(p) =>
            /\ flow'[p] = Idle
            /\ db' = db
            /\ UNCHANGED <<snapshot, isLoadingData, dbConnectionError>>]_vars

\* A sale made by a signed-in user has failed and was logged: the store is
\* as it was and nothing is in flight.
C12_Witness ==
    /\ user /\ calls = 1
    /\ Notice("console.error", "processSale", "Sale failed") \in notices
    /\ db = InitDb
    /\ customers # Empty /\ ~isLoadingData
    /\ \A p \in Procs : flow[p].pc = "idle"

\* The call in slot p waits for the answer to a write.
Pending(p) == flow[p].pc \in {"await", "record", "courses", "deduct"}

\* The write the call in slot p waits for is answered, and with an error:
\* the store does not accept it.
WriteRefused(p) == Pending(p) /\ ~Accepts(db, flow[p].req) /\ flow'[p] # flow[p]

\* C13 (as stated): every failed write of a mutation operation is logged
\* (console.error) and shown to the user (alert) by that operation.
C13_FailedWriteLoggedAndShown ==
    [][\A p \in Procs :
         WriteRefused(p) =>
            /\ \E n \in notices' : n.kind = "console.error" /\ n.op = flow[p].op
            /\ \E n \in notices' : n.kind = "alert" /\ n.op = flow[p].op]_vars

\* The refresh in slot p has met a read error that is no relation-missing
\* condition and does not mention a relation: its request failed, or some
\* read came back with an error and none with code 42P01.
GotOrdinaryError(p) ==
    /\ flow[p].op = "refreshData" /\ flow[p].pc = "fetched"
    /\ \/ flow[p].res.thrown = "Failed to fetch"
       \/ /\ flow[p].res.thrown = "none"
          /\ \E t \in Tables : flow[p].res.err[t] # "none"
          /\ \A t \in Tables : flow[p].res.err[t] # "42P01"

\* C14 (as stated): a refresh that met such an error, thrown or returned,
\* ends with every collection as it was and without setting the
\* schema-missing flag.
C14_OrdinaryErrorKeepsSnapshot ==
    [][\A p \in Procs :
         GotOrdinaryError(p) /\ Finishes(p) =>
            /\ snapshot' = snapshot
            /\ dbConnectionError' = dbConnectionError]_vars

\* The service s is a line item of a transaction row of the store.
SoldService(s) ==
    \E t \in DOMAIN db.transactions :
       \E n \in 1 .. Len(db.transactions[t].items) :
          /\ db.transactions[t].items[n].type = "service"
          /\ db.transactions[t].items[n].id = s

\* C15 (as stated): the row of a service that a recorded transaction refers
\* to is never changed nor removed.
C15_SoldServiceImmutable ==
    [][\A s \in DOMAIN db.services :
         SoldService(s) => s \in DOMAIN db'.services /\ db'.services[s] = db.services[s]]_vars

(***************************************************************************)
(* exportToSQL: the script is a list of INSERT statements, each with its   *)
(* table, its column list and one tuple of SQL literals per element.       *)
(***************************************************************************)
\* '${v}' : a quoted literal; a null value is spelled by the template as null.
Quoted(v) == <<"str", IF v = Null THEN "null" ELSE v>>

\* '${v || ''}' : a quoted literal, empty for null and for the empty string.
QuotedOrEmpty(v) == <<"str", IF v = Null THEN "" ELSE v>>

\* ${v ? `'${v}'` : 'NULL'} : a quoted literal, or the keyword NULL.
QuotedOrNull(v) == IF v = Null \/ v = "" THEN <<"null">> ELSE <<"str", v>>

\* ${n} : a number written bare.
Bare(n) == <<"num", n>>

\* '${c.id}' : the id, quoted.
QuotedId(id) == <<"str", id>>

ExportCustomers ==
    [table |-> "customers",
     columns |-> <<"id", "name", "phone", "email", "birth_date", "notes", "address">>,
     rows |-> [i \in DOMAIN customers |->
                 LET c == customers[i] IN
                 <<QuotedId(c.id), Quoted(c.name), Quoted(c.phone), QuotedOrEmpty(c.email),
                   QuotedOrNull(c.birthDate), QuotedOrEmpty(c.notes), QuotedOrEmpty(c.address)>>]]

ExportInventory ==
    [table |-> "inventory",
     columns |-> <<"id", "name", "quantity", "unit", "min_level", "price_per_unit">>,
     rows |-> [i \in DOMAIN inventory |->
                 LET it == inventory[i] IN
                 <<QuotedId(it.id), Quoted(it.name), Bare(it.quantity), Quoted(it.unit),
                   Bare(it.minLevel), Bare(it.pricePerUnit)>>]]

ExportServices ==
    [table |-> "services",
     columns |-> <<"id", "name", "price", "duration_minutes", "category">>,
     rows |-> [i \in DOMAIN services |->
                 LET sv == services[i] IN
                 <<QuotedId(sv.id), Quoted(sv.name), Bare(sv.price), Bare(sv.durationMinutes),
                   Quoted(sv.category)>>]]

ExportCourses ==
    [table |-> "courses",
     columns |-> <<"id", "name", "price", "total_units", "description">>,
     rows |-> [i \in DOMAIN courseDefinitions |->
                 LET c == courseDefinitions[i] IN
                 <<QuotedId(c.id), Quoted(c.name), Bare(c.price), Bare(c.totalUnits),
                   QuotedOrEmpty(c.description)>>]]

\* The statements of the script: one per collection that is not empty.
exportToSQL ==
    (IF customers # Empty THEN <<ExportCustomers>> ELSE <<>>)
    \o (IF inventory # Empty THEN <<ExportInventory>> ELSE <<>>)
    \o (IF services # Empty THEN <<ExportServices>> ELSE <<>>)
    \o (IF courseDefinitions # Empty THEN <<ExportCourses>> ELSE <<>>)

\* Reading the script back: the value of a literal, and the records of a table
\* (column |-> value, by id), none when the script has no statement for it.
ValueOf(lit) == IF lit[1] = "null" THEN Null ELSE lit[2]

RecordsOf(sql, table) ==
    IF \E n \in 1 .. Len(sql) : sql[n].table = table
    THEN LET st == sql[CHOOSE n \in 1 .. Len(sql) : sql[n].table = table] IN
         [i \in DOMAIN st.rows |->
            [col \in {st.columns[n] : n \in 1 .. Len(st.columns)} |->
               ValueOf(st.rows[i][CHOOSE n \in 1 .. Len(st.columns) : st.columns[n] = col])]]
    ELSE Empty

\* The fields of the four exported entities.
ExportedFields(table) ==
    CASE table = "customers" -> {"id", "name", "phone", "email", "birthDate", "notes", "lineId", "address"}
      [] table = "inventory" -> {"id", "name", "quantity", "unit", "minLevel", "pricePerUnit"}
      [] table = "services" -> {"id", "name", "price", "durationMinutes", "category", "consumables", "imageUrl"}
      [] table = "courses" -> {"id", "name", "price", "totalUnits", "description", "consumables"}

\* The records read back from the script are those of the collection coll:
\* the same ids, and for every field the same value.
Reproduces(table, coll) ==
    LET recs == RecordsOf(exportToSQL, table) IN
    /\ DOMAIN recs = DOMAIN coll
    /\ \A i \in DOMAIN coll : \A k \in ExportedFields(table) :
          /\ Column(k) \in DOMAIN recs[i]
          /\ recs[i][Column(k)] = coll[i][k]

\* C16 (as stated): the script of exportToSQL, read back, gives the records
\* of the customers, inventory, services and courseDefinitions of the
\* snapshot, with every field of every record.
C16_ExportReproducesSnapshot ==
    /\ Reproduces("customers", customers)
    /\ Reproduces("inventory", inventory)
    /\ Reproduces("services", services)
    /\ Reproduces("courses", courseDefinitions)

(***************************************************************************)
(* The order of the writes of useCourse.                                   *)
(***************************************************************************)
\* The consumable at position k of the call in slot p has its inventory item
\* in the snapshot the call was made from.
FoundAt(p, k) == Consumables(flow[p])[k].inventoryItemId \in DOMAIN flow[p].closure.inventory

\* The position of the consumable deducted after position k (0: none is):
\* the next one, or with skip the next one whose item is in the snapshot.
After(p, k, skip) ==
    LET rest == {j \in (k + 1) .. Len(Consumables(flow[p])) : skip => FoundAt(p, j)}
    IN IF rest = {} THEN 0 ELSE CHOOSE j \in rest : \A i \in rest : j <= i

\* The request pending after the step is the deduction of the consumable at
\* position k: max(0, snapshot quantity - quantityUsed * unitsToUse), for the
\* item the snapshot holds.
DeductsAt(p, k) ==
    LET con == Consumables(flow[p])[k] IN
    /\ flow'[p].op = "useCourse" /\ flow'[p].pc = "deduct" /\ flow'[p].k = k
    /\ flow'[p].req.table = "inventory" /\ flow'[p].req.kind = "update"
    /\ flow'[p].req.id = con.inventoryItemId
    /\ FoundAt(p, k) =>
          flow'[p].req.bodies[1] =
             [quantity |-> Max(0, flow[p].closure.inventory[con.inventoryItemId].quantity
                                    - con.quantityUsed * flow[p].args.unitsToUse)]

\* After the answer to the write at position k of the list (0: the insert of
\* the treatment record), the next deduction is pending, or the refresh has
\* started (the call returns without one when it was made with no user).
Proceeds(p, k, skip) ==
    IF After(p, k, skip) # 0 THEN DeductsAt(p, After(p, k, skip))
    ELSE IF flow[p].user THEN RefreshStarted(p)
    ELSE flow'[p] = Idle

\* The steps of the useCourse call in slot p come in order: the update of the
\* course instance, the insert of the treatment record, the deductions, the
\* refresh; each step applies the pending write or, on an error, nothing, and
\* undoes nothing.
InOrder(p, skip) ==
    (flow[p].op = "useCourse" /\ flow'[p] # flow[p]) =>
       /\ db' = db \/ db' = Apply(db, flow[p].req)
       /\ flow[p].pc = "await" =>
             /\ flow[p].req = [table |-> "customer_courses", kind |-> "update",
                               id |-> flow[p].args.courseInstanceId, bodies |-> flow[p].req.bodies]
             /\ flow'[p].op = "useCourse" /\ flow'[p].pc = "record"
             /\ flow'[p].req.table = "treatment_records" /\ flow'[p].req.kind = "insert"
             /\ Len(flow'[p].req.bodies) = 1
             /\ flow'[p].req.bodies[1].units_used = flow[p].args.unitsToUse
             /\ flow'[p].req.bodies[1].customer_id = flow[p].args.customerId
       /\ flow[p].pc = "record" => Proceeds(p, 0, skip)
       /\ flow[p].pc = "deduct" => Proceeds(p, flow[p].k, skip)

\* C17 (as stated): the writes of useCourse are the update, the insert, one
\* deduction per consumable of the course definition in list order, then
\* the refresh; a failed write undoes nothing.
C17_WritesInOrder == [][\A p \in Procs : InOrder(p, FALSE)]_vars

\* C17 (amended): the same, with one deduction per consumable whose
\* inventory item is in the snapshot the call was made from; a consumable
\* whose item is not found is skipped.
C17_WritesInOrderOfFound == [][\A p \in Procs : InOrder(p, TRUE)]_vars

\* A redemption waits for its deduction after its update was applied and its
\* treatment record refused: the course instance keeps the new value.
C17_Witness ==
    \E p \in Procs :
       /\ flow[p].op = "useCourse" /\ flow[p].pc = "deduct" /\ flow[p].k = 1
       /\ flow[p].oks = <<TRUE, FALSE>>
       /\ flow[p].args.unitsToUse = 1
       /\ db.customer_courses[flow[p].args.courseInstanceId].remaining_units = 1
       /\ db.treatment_records = Empty

(***************************************************************************)
(* The nesting of child rows, the schema-missing flag, and quiescence.     *)
(***************************************************************************)
\* The refresh in slot p ends, every one of its reads having brought rows.
Populates(p) ==
    /\ Finishes(p) /\ flow[p].op = "refreshData"
    /\ flow[p].res.thrown = "none"
    /\ \A t \in Tables : flow[p].res.err[t] = "none"

\* The ids of the rows fetched from a child table for the customer id c.
FetchedFor(p, t, c) == {j \in DOMAIN flow[p].res.data[t] : flow[p].res.data[t][j].customer_id = c}

Clears == dbConnectionError = "MISSING_TABLES" /\ dbConnectionError' # "MISSING_TABLES"

\* The step starts a refresh in slot p.
Starts(p) == flow[p].pc # "reading" /\ flow'[p].op = "refreshData" /\ flow'[p].pc = "reading"

\* The refresh in slot p ends, having met no relation-missing signal.
EndsWithoutSignal(p) ==
    /\ Finishes(p) /\ flow[p].op = "refreshData"
    /\ ~MentionsRelation(flow[p].res.thrown)
    /\ \A t \in Monitored : flow[p].res.err[t] # "42P01"

\* C19 (as stated): the schema-missing flag, once set, is cleared only by
\* the end of a refresh that met no relation-missing signal.
C19_FlagStaysUntilGoodRefresh ==
    [][Clears => \E p \in Procs : EndsWithoutSignal(p)]_vars

\* C19 (amended): the schema-missing flag, once set, is cleared only by the
\* start of a refresh (of a signed-in session), which sets the loading flag
\* in the same step; no end of a refresh and no other step clears it.
C19_FlagStaysUntilRefreshStarts ==
    [][Clears => \E p \in Procs : Starts(p) /\ isLoadingData']_vars

\* A refresh has met the relation-missing signal (and none has met an
\* exception), and the flag is clear again while a refresh is reading.
C19_Witness ==
    /\ Notice("console.error", "refreshData", "Database Tables Missing:") \in notices
    /\ Notice("console.error", "refreshData", "Error fetching data:") \notin notices
    /\ dbConnectionError = Null
    /\ isLoadingData
    /\ \E p \in Procs : flow[p].op = "refreshData" /\ flow[p].pc = "reading"

\* Nothing is in flight: every call has returned and every refresh has ended.
Quiescent == \A p \in Procs : flow[p].pc = "idle"

\* C20 (as stated): in a signed-in session whose reads all succeed, once
\* nothing is in flight the snapshot is the mapped content of the store.
C20_QuiescentSnapshotIsStore == Quiescent => snapshot = SnapshotOf(db)

(***************************************************************************)
(* Which reads raise the schema-missing flag.                               *)
(***************************************************************************)
\* The ids of the rows the refresh in slot p got from table t: none when the
\* read came back with an error.
Fetched(p, t) == IF flow[p].res.err[t] = "none" THEN DOMAIN flow[p].res.data[t] ELSE {}

\* The refresh in slot p got the relation-missing signal where the flag
\* depends on it: code 42P01 from the customers, services, appointments or
\* inventory read, or a thrown error whose message mentions a relation.
Signalled(p) ==
    \/ /\ flow[p].res.thrown = "none"
       /\ \E t \in {"customers", "services", "appointments", "inventory"} :
             flow[p].res.err[t] = "42P01"
    \/ flow[p].res.thrown = "relation does not exist"

\* The refresh in slot p got code 42P01, and only from reads among courses,
\* transactions, customer_courses and treatment_records.
SignalledElsewhere(p) ==
    /\ flow[p].res.thrown = "none"
    /\ \E t \in Tables : flow[p].res.err[t] = "42P01"
    /\ \A t \in Tables :
          flow[p].res.err[t] = "42P01" =>
             t \in {"courses", "transactions", "customer_courses", "treatment_records"}

SeedInventory ==
    << [name |-> "Syringe 3ml", quantity |-> 500, unit |-> "piece", min_level |-> 100, price_per_unit |-> 5],
       [name |-> "Botox Allergan 100u", quantity |-> 20, unit |-> "vial", min_level |-> 5, price_per_unit |-> 4000],
       [name |-> "Vitamin C Ampoule", quantity |-> 200, unit |-> "ampoule", min_level |-> 50, price_per_unit |-> 20],
       [name |-> "Normal Saline 100ml", quantity |-> 100, unit |-> "bag", min_level |-> 20, price_per_unit |-> 15],
       [name |-> "Sterile Gloves (M)", quantity |-> 1000, unit |-> "pair", min_level |-> 100, price_per_unit |-> 10],
       [name |-> "Meso Fat Solution", quantity |-> 50, unit |-> "vial", min_level |-> 10, price_per_unit |-> 500] >>

SeedServices ==
    << [name |-> "Botox Injection (50u)", price |-> 8900, duration_minutes |-> 30, category |-> "Injection"],
       [name |-> "IV Drip Vitamin Glow", price |-> 2500, duration_minutes |-> 45, category |-> "Wellness"],
       [name |-> "Ultraformer III (Face)", price |-> 15000, duration_minutes |-> 60, category |-> "Lifting"],
       [name |-> "Laser Hair Removal (Arm)", price |-> 1500, duration_minutes |-> 20, category |-> "Laser"],
       [name |-> "Meso Fat Jowl", price |-> 3500, duration_minutes |-> 30, category |-> "Injection"] >>

SeedCourses ==
    << [name |-> "IV Drip Buffet (10)", price |-> 20000, total_units |-> 10, description |-> "vitamin drip 10 times"],
       [name |-> "Laser Hair Removal (12)", price |-> 12000, total_units |-> 12, description |-> "laser hair removal 12 times"],
       [name |-> "Acne Clear (5)", price |-> 4500, total_units |-> 5, description |-> "acne treatment 5 times"] >>

SeedCustomers ==
    << [name |-> "Khun Suda Jaidee", phone |-> "081-234-5678", email |-> "suda@example.com", notes |-> "allergic to Penicillin"],
       [name |-> "Khun Somchai Mangkang", phone |-> "089-987-6543", email |-> "somchai@example.com", notes |-> "likes a firm facial massage"],
       [name |-> "Khun Wilai Suaysamer", phone |-> "065-432-1111", email |-> "wilai@example.com"] >>

\* The writes of seedDatabase, in the order of the code.
SeedRequests ==
    << InsertReq("inventory", SeedInventory), InsertReq("services", SeedServices),
       InsertReq("courses", SeedCourses), InsertReq("customers", SeedCustomers) >>

\* The writes of resetDatabase, in the order of the code.
ResetRequests ==
    << DeleteAllReq("treatment_records"), DeleteAllReq("customer_courses"),
       DeleteAllReq("appointments"), DeleteAllReq("transactions"),
       DeleteAllReq("inventory"), DeleteAllReq("services"),
       DeleteAllReq("courses"), DeleteAllReq("customers") >>

\* The number of seedDatabase and resetDatabase calls in flight together.
MaxSetup == 1

\* Another seedDatabase or resetDatabase call fits in the bound.
SetupFits ==
    Cardinality({q \in Procs : flow[q].op \in {"seedDatabase", "resetDatabase"}}) < MaxSetup

\* seedDatabase is called: the loading flag is set, whoever is signed in, and
\* the first insert is sent.
SeedDatabase(p) ==
    /\ flow[p].pc = "idle"
    /\ calls < MaxCalls /\ SetupFits
    /\ calls' = calls + 1
    /\ isLoadingData' = TRUE
    /\ flow' = [flow EXCEPT ![p] =
                  [Call("seedDatabase", <<>>, <<>>, SeedRequests[1]) EXCEPT !.k = 1]]
    /\ UNCHANGED <<db, snapshot, dbConnectionError, user, notices>>

\* The pending insert of seedDatabase is answered, its error if any being
\* ignored, and the next insert is sent or the timer is set; or the request
\* is rejected, which the catch logs before it clears the loading flag.
SeedInsert(p) ==
    /\ flow[p].op = "seedDatabase" /\ flow[p].pc = "await"
    /\ \E rejected \in BOOLEAN :
         IF rejected
         THEN /\ notices' = notices \cup {Notice("console.error", "seedDatabase", "Seed error:")}
              /\ isLoadingData' = FALSE
              /\ flow' = [flow EXCEPT ![p] = Idle]
              /\ UNCHANGED db
         ELSE \E ok \in Outcomes(db, flow[p].req) :
              /\ db' = Served(p, ok)
              /\ flow' = [flow EXCEPT ![p] =
                            IF flow[p].k < Len(SeedRequests)
                            THEN [Answered(p, ok) EXCEPT !.k = flow[p].k + 1,
                                                         !.req = SeedRequests[flow[p].k + 1]]
                            ELSE [Answered(p, ok) EXCEPT !.pc = "wait"]]
              /\ UNCHANGED <<isLoadingData, notices>>
    /\ UNCHANGED <<snapshot, dbConnectionError, user, calls>>

\* The timer of seedDatabase fires and refreshData is called: seedDatabase
\* does nothing after it.
SeedRefresh(p) ==
    /\ flow[p].op = "seedDatabase" /\ flow[p].pc = "wait"
    /\ CallRefreshData(p, flow[p])
    /\ UNCHANGED <<db, snapshot, user, calls, notices>>

\* resetDatabase is called: nothing when the confirmation is declined, else
\* the loading flag is set and the first delete is sent.
ResetDatabase(p, confirmed) ==
    /\ flow[p].pc = "idle"
    /\ calls < MaxCalls /\ SetupFits
    /\ calls' = calls + 1
    /\ IF confirmed
       THEN /\ isLoadingData' = TRUE
            /\ flow' = [flow EXCEPT ![p] =
                          [Call("resetDatabase", <<>>, <<>>, ResetRequests[1]) EXCEPT !.k = 1]]
       ELSE UNCHANGED <<isLoadingData, flow>>
    /\ UNCHANGED <<db, snapshot, dbConnectionError, user, notices>>

\* The pending delete of resetDatabase is answered, its error if any being
\* ignored, and the next delete is sent; after the last one refreshData is
\* called, and when that returns at once the finally clears the loading
\* flag (as the end of the refresh does otherwise). Or the request is
\* rejected: the catch logs and alerts, the finally clears the loading flag.
ResetDelete(p) ==
    /\ flow[p].op = "resetDatabase" /\ flow[p].pc = "await"
    /\ \E rejected \in BOOLEAN :
         IF rejected
         THEN /\ notices' = notices \cup {Notice("console.error", "resetDatabase", ""),
                                          Notice("alert", "resetDatabase", "")}
              /\ isLoadingData' = FALSE
              /\ flow' = [flow EXCEPT ![p] = Idle]
              /\ UNCHANGED <<db, dbConnectionError>>
         ELSE \E ok \in Outcomes(db, flow[p].req) :
              /\ db' = Served(p, ok)
              /\ IF flow[p].k < Len(ResetRequests)
                 THEN /\ flow' = [flow EXCEPT ![p] =
                                    [Answered(p, ok) EXCEPT !.k = flow[p].k + 1,
                                                            !.req = ResetRequests[flow[p].k + 1]]]
                      /\ UNCHANGED <<isLoadingData, dbConnectionError>>
                 ELSE IF flow[p].user
                      THEN CallRefreshData(p, flow[p])
                      ELSE /\ isLoadingData' = FALSE
                           /\ flow' = [flow EXCEPT ![p] = Idle]
                           /\ UNCHANGED dbConnectionError
              /\ UNCHANGED notices
    /\ UNCHANGED <<snapshot, user, calls>>

Setup ==
    \E p \in Procs :
       \/ SeedDatabase(p) \/ SeedInsert(p) \/ SeedRefresh(p)
       \/ \E confirmed \in BOOLEAN : ResetDatabase(p, confirmed)
       \/ ResetDelete(p)

\* seedDatabase and resetDatabase, called before or after the sign-in, and
\* the refreshes that the sign-in and they start.
NextSetup ==
    \/ Setup
    \/ \E p \in Procs : SignIn(p) \/ RefreshReadRows(p) \/ RefreshFinish(p)

SpecSetup == Init /\ [][NextSetup]_vars

\* A refresh, a seedDatabase or a resetDatabase call is in flight.
InFlight == \E p \in Procs : flow[p].op \in {"refreshData", "seedDatabase", "resetDatabase"}

\* C22: the loading flag is false in every state in which no refresh, no
\* seedDatabase call and no resetDatabase call is in flight.
C22_LoadingOnlyInFlight == ~InFlight => ~isLoadingData

====
